---- MODULE Spec2Model ----
(***************************************************************************)
(* MyBible: the in-memory store of server/storage.ts (MemStorage), its     *)
(* corpus loader, its query resolver (searchVerses) and the highlight and  *)
(* bookmark operations, as a state machine.                                *)
(*                                                                         *)
(* Strings that the code inspects character by character (book names,      *)
(* verse texts, search queries) are sequences of one-character strings.    *)
(* Strings the code only compares for equality (verse ids, user ids,       *)
(* colors) are TLA+ strings.  A JavaScript Map is a sequence of its values *)
(* in insertion order, with the key a function of the value.               *)
(***************************************************************************)
EXTENDS Integers, Sequences, FiniteSets, TLC

VARIABLES
    bibleData,          \* the parsed content of bible-data.json (an input)
    pc,                 \* position of the constructor / of the request cycle
    loadIdx,            \* index of the next dataset entry forEach visits
    bookMap,            \* initializeBibleData's local bookMap (its key set)
    books,              \* MemStorage.books, values in insertion order
    verses,             \* MemStorage.verses, values in insertion order
    currentBookId,
    currentVerseId,
    highlightsList,     \* MemStorage.highlightsList, values in insertion order
    bookmarksList,      \* MemStorage.bookmarksList, values in insertion order
    currentHighlightId,
    currentBookmarkId,
    issuedHighlightIds, \* observer: the ids createHighlight returned, in order
    issuedBookmarkIds,  \* observer: the ids createBookmark returned, in order
    loadFailed,         \* observer: the catch block of the loader ran
    last,               \* observer: the last operation called, its arguments
    result              \* observer: what the last operation returned

vars == << bibleData, pc, loadIdx, bookMap, books, verses, currentBookId,
           currentVerseId, highlightsList, bookmarksList, currentHighlightId,
           currentBookmarkId, issuedHighlightIds, issuedBookmarkIds,
           loadFailed, last, result >>

loaderVars == << bibleData, loadIdx, bookMap, books, verses, currentBookId,
                 currentVerseId, loadFailed >>

userVars == << highlightsList, bookmarksList, currentHighlightId,
               currentBookmarkId, issuedHighlightIds, issuedBookmarkIds >>

----------------------------------------------------------------------------
(* Characters and strings *)

UpperCase == << "A", "B", "C", "D", "E", "F", "G", "H", "I", "J", "K", "L", "M",
                "N", "O", "P", "Q", "R", "S", "T", "U", "V", "W", "X", "Y", "Z" >>

LowerCase == << "a", "b", "c", "d", "e", "f", "g", "h", "i", "j", "k", "l", "m",
                "n", "o", "p", "q", "r", "s", "t", "u", "v", "w", "x", "y", "z" >>

Range(s) == { s[i] : i \in DOMAIN s }

UpperLetters == Range(UpperCase)

Letters == Range(UpperCase) \cup Range(LowerCase)

Digits == { "0", "1", "2", "3", "4", "5", "6", "7", "8", "9" }

\* The lower-case letter of each upper-case letter
LowerOf ==
    [ c \in UpperLetters |->
        LowerCase[CHOOSE i \in DOMAIN UpperCase : UpperCase[i] = c] ]

\* [a-zA-Z]
IsLetter(c) == c \in Letters

\* \d
IsDigit(c) == c \in Digits

\* [1-3]
IsNumeral13(c) == c \in { "1", "2", "3" }

\* \s, and what String.prototype.trim strips
IsSpace(c) == c \in { " ", "\t" }

\* String.prototype.toLowerCase, one character
LowerChar(c) == IF c \in UpperLetters THEN LowerOf[c] ELSE c

\* String.prototype.toLowerCase
toLowerCase(s) == [ i \in DOMAIN s |-> LowerChar(s[i]) ]

\* String.prototype.trim
trim(s) ==
    LET keep == { i \in DOMAIN s : ~IsSpace(s[i]) }
    IN  IF keep = {} THEN << >>
        ELSE LET lo == CHOOSE i \in keep : \A j \in keep : i <= j
                 hi == CHOOSE i \in keep : \A j \in keep : j <= i
             IN  SubSeq(s, lo, hi)

\* String.prototype.includes
includes(s, t) ==
    \E i \in 0 .. (Len(s) - Len(t)) : SubSeq(s, i + 1, i + Len(t)) = t

DigitValue(c) ==
    CASE c = "0" -> 0 [] c = "1" -> 1 [] c = "2" -> 2 [] c = "3" -> 3
      [] c = "4" -> 4 [] c = "5" -> 5 [] c = "6" -> 6 [] c = "7" -> 7
      [] c = "8" -> 8 [] c = "9" -> 9

\* parseInt(s, 10) of a string of decimal digits
RECURSIVE parseInt(_)
parseInt(s) ==
    IF s = << >> THEN 0
    ELSE 10 * parseInt(SubSeq(s, 1, Len(s) - 1)) + DigitValue(s[Len(s)])

----------------------------------------------------------------------------
(* Sequences as JavaScript arrays and Maps *)

\* Array.prototype.slice(0, n)
slice(s, n) == SubSeq(s, 1, IF Len(s) < n THEN Len(s) ELSE n)

\* Array.prototype.find over the elements at the indices `hits` (those that
\* satisfy the callback): the index of the first one, 0 if there is none
findFirst(hits) ==
    IF hits = {} THEN 0 ELSE CHOOSE i \in hits : \A j \in hits : i <= j

\* Map.prototype.set on a Map keyed by the value's id: an existing key keeps
\* its place, a new key goes last
MapSetById(m, v) ==
    IF \E i \in DOMAIN m : m[i].id = v.id
    THEN [ i \in DOMAIN m |-> IF m[i].id = v.id THEN v ELSE m[i] ]
    ELSE Append(m, v)

\* Map.prototype.delete on a Map keyed by the value's id
MapDeleteById(m, id) ==
    LET P(x) == x.id # id IN SelectSeq(m, P)

----------------------------------------------------------------------------
(* Fallback sample data, initializeSampleData *)

GenesisName == <<
    "G", "e", "n", "e", "s", "i", "s" >>

MatthewName == <<
    "M", "a", "t", "t", "h", "e", "w" >>

JohnName == <<
    "J", "o", "h", "n" >>

GenesisText == <<
    "I", "n", " ", "t", "h", "e", " ", "b", "e", "g", "i", "n", "n", "i",
    "n", "g", " ", "G", "o", "d", " ", "c", "r", "e", "a", "t", "e", "d",
    " ", "t", "h", "e", " ", "h", "e", "a", "v", "e", "n", "s", " ", "a",
    "n", "d", " ", "t", "h", "e", " ", "e", "a", "r", "t", "h", "." >>

MatthewText == <<
    "B", "l", "e", "s", "s", "e", "d", " ", "a", "r", "e", " ", "t", "h",
    "e", " ", "p", "o", "o", "r", " ", "i", "n", " ", "s", "p", "i", "r",
    "i", "t", ",", " ", "f", "o", "r", " ", "t", "h", "e", "i", "r", "s",
    " ", "i", "s", " ", "t", "h", "e", " ", "k", "i", "n", "g", "d", "o",
    "m", " ", "o", "f", " ", "h", "e", "a", "v", "e", "n", "." >>

JohnText == <<
    "F", "o", "r", " ", "G", "o", "d", " ", "s", "o", " ", "l", "o", "v",
    "e", "d", " ", "t", "h", "e", " ", "w", "o", "r", "l", "d", " ", "t",
    "h", "a", "t", " ", "h", "e", " ", "g", "a", "v", "e", " ", "h", "i",
    "s", " ", "o", "n", "e", " ", "a", "n", "d", " ", "o", "n", "l", "y",
    " ", "S", "o", "n", ",", " ", "t", "h", "a", "t", " ", "w", "h", "o",
    "e", "v", "e", "r", " ", "b", "e", "l", "i", "e", "v", "e", "s", " ",
    "i", "n", " ", "h", "i", "m", " ", "s", "h", "a", "l", "l", " ", "n",
    "o", "t", " ", "p", "e", "r", "i", "s", "h", " ", "b", "u", "t", " ",
    "h", "a", "v", "e", " ", "e", "t", "e", "r", "n", "a", "l", " ", "l",
    "i", "f", "e", "." >>

\* booksData, lines 110-114
booksData == <<
    [ name |-> GenesisName, testament |-> "Old", chapters |-> 50, order |-> 1 ],
    [ name |-> MatthewName, testament |-> "New", chapters |-> 28, order |-> 40 ],
    [ name |-> JohnName, testament |-> "New", chapters |-> 21, order |-> 43 ] >>

\* sampleVerses, lines 122-126
sampleVerses == <<
    [ book |-> GenesisName, chapter |-> 1, verse |-> 1, text |-> GenesisText ],
    [ book |-> MatthewName, chapter |-> 5, verse |-> 3, text |-> MatthewText ],
    [ book |-> JohnName, chapter |-> 3, verse |-> 16, text |-> JohnText ] >>

\* The key of this.verses: `${book}:${chapter}:${verse}`.  The chapter and the
\* verse are numbers, so the string determines the triple and the triple it.
VerseKey(v) == << v.book, v.chapter, v.verse >>

\* this.verses.set(key, newVerse), lines 97 and 131
VersesSet(m, v) ==
    IF \E i \in DOMAIN m : VerseKey(m[i]) = VerseKey(v)
    THEN [ i \in DOMAIN m |-> IF VerseKey(m[i]) = VerseKey(v) THEN v ELSE m[i] ]
    ELSE Append(m, v)

\* booksData.forEach, lines 116-119, from book i on
RECURSIVE AddSampleBooks(_, _, _)
AddSampleBooks(bs, nextId, i) ==
    IF i > Len(booksData) THEN bs
    ELSE AddSampleBooks(
             MapSetById(bs,
                    [ id |-> nextId, name |-> booksData[i].name,
                      testament |-> booksData[i].testament,
                      chapters |-> booksData[i].chapters,
                      order |-> booksData[i].order ]),
             nextId + 1, i + 1)

\* Mutant of AddSampleVerses: only the first sample verse is stored
RECURSIVE AddSampleVerses(_, _, _)
AddFirstSampleVerse(vs, nextId, i) ==
    IF i > 1 THEN vs
    ELSE VersesSet(vs,
                [ id |-> nextId, book |-> sampleVerses[i].book,
                  chapter |-> sampleVerses[i].chapter,
                  verse |-> sampleVerses[i].verse,
                  text |-> sampleVerses[i].text ])

\* sampleVerses.forEach, lines 128-132, from verse i on
AddSampleVerses(vs, nextId, i) ==
    IF i > Len(sampleVerses) THEN vs
    ELSE AddSampleVerses(
             VersesSet(vs,
                    [ id |-> nextId, book |-> sampleVerses[i].book,
                      chapter |-> sampleVerses[i].chapter,
                      verse |-> sampleVerses[i].verse,
                      text |-> sampleVerses[i].text ]),
             nextId + 1, i + 1)

----------------------------------------------------------------------------
(* The corpus loader, initializeBibleData *)

Max(a, b) == IF a >= b THEN a ELSE b

\* A dataset entry that is JSON null: reading a property of it throws
NullEntry ==
    [ isNull |-> TRUE, book |-> 0, book_name |-> << >>, chapter |-> 0,
      verse |-> 0, text |-> << >> ]

Entry(ordinal, name, c, v, t) ==
    [ isNull |-> FALSE, book |-> ordinal, book_name |-> name, chapter |-> c,
      verse |-> v, text |-> t ]

\* lines 73-75: the reduce over the entries of this book name, from entry i on
RECURSIVE maxChapter(_, _, _, _)
maxChapter(entries, bookName, i, max) ==
    IF i > Len(entries) THEN max
    ELSE maxChapter(entries, bookName, i + 1,
                    IF entries[i].book_name = bookName
                    THEN Max(max, entries[i].chapter) ELSE max)

\* line 70
testamentOf(ordinal) == IF ordinal <= 39 THEN "Old" ELSE "New"

\* Mutant of isNewBook: every entry registers a book
isNewBookAlways(bookName) == TRUE

\* line 68: !bookMap.has(bookName)
isNewBook(bookName) == bookName \notin bookMap

\* lines 58-60 and 66: readFileSync, JSON.parse and Object.values(bibleData.verses)
\* throw for a missing file, malformed JSON and a document without verses.
ReadDataset ==
    /\ pc = "construct"
    /\ IF bibleData.file = "ok"
       THEN pc' = "forEach" /\ loadIdx' = 1
       ELSE pc' = "catch" /\ loadIdx' = loadIdx
    /\ UNCHANGED << bibleData, bookMap, books, verses, currentBookId,
                    currentVerseId, loadFailed, userVars, last, result >>

\* lines 66-98: the forEach callback on one entry.  verse.book_name throws on
\* a null entry, and so does v.book_name in the filter of line 74, which reads
\* every entry of the dataset before the new book is built.
LoadEntry ==
    /\ pc = "forEach"
    /\ loadIdx <= Len(bibleData.entries)
    /\ LET verse == bibleData.entries[loadIdx]
           bookName == verse.book_name
           isNew == isNewBook(bookName)
           throws == \/ verse.isNull
                     \/ isNew /\ \E i \in DOMAIN bibleData.entries :
                                     bibleData.entries[i].isNull
           newBook == [ id |-> currentBookId, name |-> bookName,
                        testament |-> testamentOf(verse.book),
                        chapters |-> maxChapter(bibleData.entries, bookName, 1, 0),
                        order |-> verse.book ]
           newVerse == [ id |-> currentVerseId, book |-> verse.book_name,
                         chapter |-> verse.chapter, verse |-> verse.verse,
                         text |-> verse.text ]
       IN  IF throws
           THEN /\ pc' = "catch"
                /\ UNCHANGED << loadIdx, bookMap, books, verses, currentBookId,
                                currentVerseId >>
           ELSE /\ pc' = pc
                /\ loadIdx' = loadIdx + 1
                /\ bookMap' = bookMap \cup { bookName }
                /\ books' = IF isNew THEN MapSetById(books, newBook) ELSE books
                /\ currentBookId' = IF isNew THEN currentBookId + 1 ELSE currentBookId
                /\ verses' = VersesSet(verses, newVerse)
                /\ currentVerseId' = currentVerseId + 1
    /\ UNCHANGED << bibleData, loadFailed, userVars, last, result >>

\* line 100: forEach has visited every entry
LoadDone ==
    /\ pc = "forEach"
    /\ loadIdx > Len(bibleData.entries)
    /\ pc' = "ready"
    /\ UNCHANGED << loaderVars, userVars, last, result >>

\* lines 101-105 and 108-133: the catch block and initializeSampleData
initializeSampleData ==
    /\ pc = "catch"
    /\ books' = AddSampleBooks(books, currentBookId, 1)
    /\ currentBookId' = currentBookId + Len(booksData)
    /\ verses' = AddSampleVerses(verses, currentVerseId, 1)
    /\ currentVerseId' = currentVerseId + Len(sampleVerses)
    /\ loadFailed' = TRUE
    /\ pc' = "ready"
    /\ UNCHANGED << bibleData, loadIdx, bookMap, userVars, last, result >>

Loader == ReadDataset \/ LoadEntry \/ LoadDone \/ initializeSampleData

\* The fields of a new MemStorage, lines 44-51, before the constructor body
NewStorage ==
    /\ pc = "construct"
    /\ loadIdx = 0
    /\ bookMap = {}
    /\ books = << >>
    /\ verses = << >>
    /\ currentBookId = 1
    /\ currentVerseId = 1
    /\ highlightsList = << >>
    /\ bookmarksList = << >>
    /\ currentHighlightId = 1
    /\ currentBookmarkId = 1
    /\ issuedHighlightIds = << >>
    /\ issuedBookmarkIds = << >>
    /\ loadFailed = FALSE
    /\ last = [ op |-> "none" ]
    /\ result = << >>

----------------------------------------------------------------------------
(* Highlights and bookmarks *)

\* An argument the caller left out (JavaScript undefined); no user id a caller
\* can send equals it.
Undefined == "<undefined>"

\* The user id used when none is given, lines 201, 211, 217
DefaultUser == "default"

VerseIds == { "John:3:16", "Genesis:1:1" }

Colors == { "yellow", "blue" }

\* User ids a request can carry: none, the empty string, a user's
UserArgs == { Undefined, "", "u1" }

\* A default parameter value (userId = "default") replaces undefined only
DefaultParam(userId) == IF userId = Undefined THEN DefaultUser ELSE userId

\* Mutant of OrDefault: the given user id is stored as it is
OrDefaultForgotten(userId) == userId

\* highlight.userId || "default" replaces every falsy value
OrDefault(userId) == IF userId \in { Undefined, "" } THEN DefaultUser ELSE userId

\* Bound on the create calls of a run, highlights and bookmarks together
MaxCreates == 3

CreatesSoFar == (currentHighlightId - 1) + (currentBookmarkId - 1)

\* lines 201-205
getHighlightsOf(userId) ==
    LET P(h) == h.userId = DefaultParam(userId) IN SelectSeq(highlightsList, P)

getHighlights ==
    /\ pc = "ready"
    /\ \E userId \in UserArgs :
          /\ last' = [ op |-> "getHighlights", userId |-> userId ]
          /\ result' = getHighlightsOf(userId)
    /\ pc' = "respond"
    /\ UNCHANGED << loaderVars, userVars >>

\* Mutant of NewHighlight: the id is the collection's size plus one
NewHighlightBySize(highlight) ==
    [ verseId |-> highlight.verseId, color |-> highlight.color,
      id |-> Len(highlightsList) + 1, userId |-> OrDefault(highlight.userId) ]

\* lines 207-215
NewHighlight(highlight) ==
    [ verseId |-> highlight.verseId, color |-> highlight.color,
      id |-> currentHighlightId, userId |-> OrDefault(highlight.userId) ]

createHighlight ==
    /\ pc = "ready"
    /\ CreatesSoFar < MaxCreates
    /\ \E verseId \in VerseIds, color \in Colors, userId \in UserArgs :
          LET highlight == [ verseId |-> verseId, color |-> color, userId |-> userId ]
              newHighlight == NewHighlight(highlight)
          IN  /\ currentHighlightId' = currentHighlightId + 1
              /\ highlightsList' = MapSetById(highlightsList, newHighlight)
              /\ issuedHighlightIds' = Append(issuedHighlightIds, newHighlight.id)
              /\ last' = [ op |-> "createHighlight", verseId |-> verseId,
                           color |-> color, userId |-> userId ]
              /\ result' = << newHighlight >>
    /\ UNCHANGED << pc, loaderVars, bookmarksList, currentBookmarkId,
                    issuedBookmarkIds >>

\* Mutant of findEntity: the user id is not compared
findEntityAnyUser(list, verseId, userId) ==
    findFirst({ i \in DOMAIN list : list[i].verseId = verseId })

\* lines 218-220 and 243-245: the index of the entity find returns, 0 if none
findEntity(list, verseId, userId) ==
    findFirst({ i \in DOMAIN list :
                  list[i].verseId = verseId /\ list[i].userId = DefaultParam(userId) })

\* Mutant of deleteFrom: every entity of the pair is removed
deleteAllFrom(list, verseId, userId) ==
    LET P(e) == ~(e.verseId = verseId /\ e.userId = DefaultParam(userId))
    IN  SelectSeq(list, P)

\* lines 217-224 and 242-249: the list after the delete
deleteFrom(list, verseId, userId) ==
    LET i == findEntity(list, verseId, userId)
    IN  IF i # 0 THEN MapDeleteById(list, list[i].id) ELSE list

\* lines 222 and 247: the id handed to Map.delete, 0 when find returned nothing
removedId(list, verseId, userId) ==
    LET i == findEntity(list, verseId, userId)
    IN  IF i # 0 THEN list[i].id ELSE 0

deleteHighlight ==
    /\ pc = "ready"
    /\ \E verseId \in VerseIds, userId \in UserArgs :
          /\ highlightsList' = deleteFrom(highlightsList, verseId, userId)
          /\ last' = [ op |-> "deleteHighlight", verseId |-> verseId,
                       userId |-> userId,
                       removed |-> removedId(highlightsList, verseId, userId) ]
          /\ result' = << >>
    /\ UNCHANGED << pc, loaderVars, bookmarksList, currentHighlightId,
                    currentBookmarkId, issuedHighlightIds, issuedBookmarkIds >>

\* lines 226-230
getBookmarksOf(userId) ==
    LET P(b) == b.userId = DefaultParam(userId) IN SelectSeq(bookmarksList, P)

getBookmarks ==
    /\ pc = "ready"
    /\ \E userId \in UserArgs :
          /\ last' = [ op |-> "getBookmarks", userId |-> userId ]
          /\ result' = getBookmarksOf(userId)
    /\ pc' = "respond"
    /\ UNCHANGED << loaderVars, userVars >>

\* lines 232-240
NewBookmark(bookmark) ==
    [ verseId |-> bookmark.verseId, id |-> currentBookmarkId,
      userId |-> OrDefault(bookmark.userId) ]

createBookmark ==
    /\ pc = "ready"
    /\ CreatesSoFar < MaxCreates
    /\ \E verseId \in VerseIds, userId \in UserArgs :
          LET bookmark == [ verseId |-> verseId, userId |-> userId ]
              newBookmark == NewBookmark(bookmark)
          IN  /\ currentBookmarkId' = currentBookmarkId + 1
              /\ bookmarksList' = MapSetById(bookmarksList, newBookmark)
              /\ issuedBookmarkIds' = Append(issuedBookmarkIds, newBookmark.id)
              /\ last' = [ op |-> "createBookmark", verseId |-> verseId,
                           userId |-> userId ]
              /\ result' = << newBookmark >>
    /\ UNCHANGED << pc, loaderVars, highlightsList, currentHighlightId,
                    issuedHighlightIds >>

deleteBookmark ==
    /\ pc = "ready"
    /\ \E verseId \in VerseIds, userId \in UserArgs :
          /\ bookmarksList' = deleteFrom(bookmarksList, verseId, userId)
          /\ last' = [ op |-> "deleteBookmark", verseId |-> verseId,
                       userId |-> userId,
                       removed |-> removedId(bookmarksList, verseId, userId) ]
          /\ result' = << >>
    /\ UNCHANGED << pc, loaderVars, highlightsList, currentHighlightId,
                    currentBookmarkId, issuedHighlightIds, issuedBookmarkIds >>

\* A store constructed without a dataset file: the loader fell back to the
\* sample data (see LoadSpec, which reaches this state)
SampleStorage ==
    /\ bibleData = [ file |-> "missing", entries |-> << >> ]
    /\ pc = "ready"
    /\ loadIdx = 0
    /\ bookMap = {}
    /\ books = AddSampleBooks(<< >>, 1, 1)
    /\ verses = AddSampleVerses(<< >>, 1, 1)
    /\ currentBookId = 1 + Len(booksData)
    /\ currentVerseId = 1 + Len(sampleVerses)
    /\ highlightsList = << >>
    /\ bookmarksList = << >>
    /\ currentHighlightId = 1
    /\ currentBookmarkId = 1
    /\ issuedHighlightIds = << >>
    /\ issuedBookmarkIds = << >>
    /\ loadFailed = TRUE
    /\ last = [ op |-> "none" ]
    /\ result = << >>

\* routes: res.json(...) sends what a read returned; the observers are cleared
Respond ==
    /\ pc = "respond"
    /\ pc' = "ready"
    /\ last' = [ op |-> "none" ]
    /\ result' = << >>
    /\ UNCHANGED << loaderVars, userVars >>

Init == SampleStorage

Next ==
    \/ getHighlights
    \/ createHighlight
    \/ deleteHighlight
    \/ getBookmarks
    \/ createBookmark
    \/ deleteBookmark
    \/ Respond

Spec == Init /\ [][Next]_vars

----------------------------------------------------------------------------
(* The query resolver, searchVerses, and getVersesByBook *)

\* Limit of the book-name branch, line 191
SearchLimit == 10

\* A query must be longer than this for the book-name branch, line 186
MinBookQuery == 2

\* line 161: /^([1-3]?\s*[a-zA-Z\s]+)\s*(\d+):(\d+)$/ matched against s.
\* [1-3]? takes a leading numeral when there is one (without it the next
\* character would have to be a letter or a space).  \s*[a-zA-Z\s]+ is greedy:
\* group 1 runs to the last letter or space before the first other character,
\* which leaves the \s* after the group empty.  What follows must be digits, a
\* colon and digits up to the end.
verseRefMatch(s) ==
    LET n == IF s # << >> /\ IsNumeral13(s[1]) THEN 1 ELSE 0
        IsWord(i) == IsLetter(s[i]) \/ IsSpace(s[i])
        g == CHOOSE k \in n .. Len(s) :
                 /\ \A i \in (n + 1) .. k : IsWord(i)
                 /\ k < Len(s) => ~IsWord(k + 1)
        colons == { i \in (g + 1) .. Len(s) : s[i] = ":" }
        c == CHOOSE i \in colons : TRUE
        ok == /\ g > n
              /\ Cardinality(colons) = 1
              /\ c > g + 1
              /\ c < Len(s)
              /\ \A i \in ((g + 1) .. Len(s)) \ { c } : IsDigit(s[i])
    IN  IF ok
        THEN [ matched |-> TRUE, bookName |-> SubSeq(s, 1, g),
               chapterStr |-> SubSeq(s, g + 1, c - 1),
               verseStr |-> SubSeq(s, c + 1, Len(s)) ]
        ELSE [ matched |-> FALSE, bookName |-> << >>, chapterStr |-> << >>,
               verseStr |-> << >> ]

\* line 158
lowercaseQueryOf(query) == trim(toLowerCase(query))

\* Mutant of referenceVerses: the book is compared without lower-casing it
referenceVersesCaseSensitive(m) ==
    LET chapter == parseInt(m.chapterStr)
        verse == parseInt(m.verseStr)
        cleanBookName == toLowerCase(trim(m.bookName))
        i == findFirst({ k \in DOMAIN verses :
                           /\ includes(verses[k].book, cleanBookName)
                           /\ verses[k].chapter = chapter
                           /\ verses[k].verse = verse })
    IN  IF i # 0 THEN << verses[i] >> ELSE << >>

\* lines 166-178: the reference branch, for a match m of the pattern
referenceVerses(m) ==
    LET chapter == parseInt(m.chapterStr)
        verse == parseInt(m.verseStr)
        cleanBookName == toLowerCase(trim(m.bookName))
        i == findFirst({ k \in DOMAIN verses :
                           /\ includes(toLowerCase(verses[k].book), cleanBookName)
                           /\ verses[k].chapter = chapter
                           /\ verses[k].verse = verse })
    IN  IF i # 0 THEN << verses[i] >> ELSE << >>

\* lines 182-184
bookNameMatch(lowercaseQuery) ==
    LET P(v) == includes(toLowerCase(v.book), lowercaseQuery)
    IN  SelectSeq(verses, P)

\* Mutant of firstChapter: the first chapter, sorted by verse number
RECURSIVE sortByVerse(_)
firstChapterSorted(bookName) ==
    LET P(v) == v.book = bookName /\ v.chapter = 1
    IN  slice(sortByVerse(SelectSeq(verses, P)), SearchLimit)

\* lines 188-191: the book-name branch, for the book of the first match
firstChapter(bookName) ==
    LET P(v) == v.book = bookName /\ v.chapter = 1
    IN  slice(SelectSeq(verses, P), SearchLimit)

\* Mutant of textSearch: only the verse text is searched
textSearchTextOnly(lowercaseQuery) ==
    LET P(v) == includes(toLowerCase(v.text), lowercaseQuery)
    IN  SelectSeq(verses, P)

\* lines 195-198: the full-text fallback
textSearch(lowercaseQuery) ==
    LET P(v) == \/ includes(toLowerCase(v.text), lowercaseQuery)
                \/ includes(toLowerCase(v.book), lowercaseQuery)
    IN  SelectSeq(verses, P)

\* lines 164, 186: the branch searchVerses takes for a query
searchBranch(query) ==
    LET lowercaseQuery == lowercaseQueryOf(query)
    IN  IF verseRefMatch(lowercaseQuery).matched THEN "reference"
        ELSE IF /\ Len(bookNameMatch(lowercaseQuery)) > 0
                /\ Len(lowercaseQuery) > MinBookQuery
             THEN "book"
             ELSE "text"

\* lines 157-199
searchVersesOf(query) ==
    LET lowercaseQuery == lowercaseQueryOf(query)
        branch == searchBranch(query)
    IN  IF branch = "reference" THEN referenceVerses(verseRefMatch(lowercaseQuery))
        ELSE IF branch = "book"
             THEN firstChapter(bookNameMatch(lowercaseQuery)[1].book)
             ELSE textSearch(lowercaseQuery)

\* Array.prototype.sort with (a, b) => a.verse - b.verse: a stable sort,
\* written as the insertion of the last element into the sorted rest
sortByVerse(s) ==
    IF s = << >> THEN << >>
    ELSE LET sorted == sortByVerse(SubSeq(s, 1, Len(s) - 1))
             x == s[Len(s)]
             n == Cardinality({ i \in DOMAIN sorted : sorted[i].verse <= x.verse })
         IN  SubSeq(sorted, 1, n) \o << x >> \o SubSeq(sorted, n + 1, Len(sorted))

\* A chapter argument: left out, a number, or NaN (parseInt of a query string
\* that is no number, line 286)
NoChapter == [ kind |-> "undefined", value |-> 0 ]

NaNChapter == [ kind |-> "NaN", value |-> 0 ]

Chapter(n) == [ kind |-> "number", value |-> n ]

\* The truthiness of a number or undefined: 0, NaN and undefined are falsy
Truthy(chapter) == chapter.kind = "number" /\ chapter.value # 0

\* lines 143-150
getVersesByBookOf(book, chapter) ==
    LET P(v) == ~ \/ v.book # book
                  \/ Truthy(chapter) /\ v.chapter # chapter.value
    IN  sortByVerse(SelectSeq(verses, P))

----------------------------------------------------------------------------
(* Requests to the query resolver *)

\* Book names, verse texts and the words of queries, over a small alphabet
Bab == << "B", "a", "b" >>

OneBab == << "1", " ", "B", "a", "b" >>

Aa == << "a", "a" >>

Ba == << "B", " ", "a" >>

Abab == << "a", "B", "a", "b" >>

WordChars == { "a", "B", " ", "1" }

\* Bound on the length of the word part of a query
MaxWordLen == 3

Words == UNION { [ 1 .. n -> WordChars ] : n \in 0 .. MaxWordLen }

\* What follows the word part: nothing, a chapter and a verse, half of one
Tails == { << >>, << "1", ":", "1" >>, << "2", ":", "1" >>, << "1", ":", "2" >>,
           << ":", "1" >> }

\* The queries of section 8 of the specification, for the sample data
ExampleQueries ==
    { << "j", "o", "h", "n", " ", "3", ":", "1", "6" >>,
      << "J", "o", "h", "n", " ", "3", ":", "1", "6" >>,
      << "j", "o", "h", "n", " ", "3", ":", "1", "7" >>,
      << "g", "e", "n", "e", "s", "i", "s" >>,
      << "l", "o", "v", "e" >>,
      << "h", "e" >>,
      << "t", "h", "e" >> }

Queries == { w \o t : w \in Words, t \in Tails } \cup ExampleQueries

BookArgs == { Bab, OneBab, Aa, toLowerCase(Bab), GenesisName }

ChapterArgs == { NoChapter, NaNChapter, Chapter(0), Chapter(1), Chapter(2) }

searchVerses ==
    /\ pc = "ready"
    /\ \E query \in Queries :
          /\ last' = [ op |-> "searchVerses", query |-> query,
                       branch |-> searchBranch(query) ]
          /\ result' = searchVersesOf(query)
    /\ pc' = "respond"
    /\ UNCHANGED << loaderVars, userVars >>

getVersesByBook ==
    /\ pc = "ready"
    /\ \E book \in BookArgs, chapter \in ChapterArgs :
          /\ last' = [ op |-> "getVersesByBook", book |-> book, chapter |-> chapter ]
          /\ result' = getVersesByBookOf(book, chapter)
    /\ pc' = "respond"
    /\ UNCHANGED << loaderVars, userVars >>

----------------------------------------------------------------------------
(* Datasets *)

\* Book ordinals of Genesis and John in the canon
GenesisOrdinal == 1

JohnOrdinal == 43

\* The entries of the datasets the resolver is run on
SearchEntries ==
    { Entry(1, Bab, 1, 1, Ba), Entry(2, OneBab, 1, 1, Abab),
      Entry(3, Aa, 1, 1, Abab), Entry(1, Bab, 1, 2, Abab),
      Entry(1, Bab, 2, 1, Ba) }

\* Bound on the number of entries of these datasets
MaxSearchEntries == 2

\* More first-chapter verses of one book than the book-name branch returns,
\* stored with the verse numbers descending
BulkEntries == [ i \in 1 .. (SearchLimit + 1) |-> Entry(1, Bab, 1, SearchLimit + 2 - i, Ba) ]

SearchDatasets ==
    { [ file |-> "ok", entries |-> es ] :
        es \in UNION { [ 1 .. n -> SearchEntries ] : n \in 0 .. MaxSearchEntries } }
    \cup { [ file |-> "ok", entries |-> BulkEntries ],
           [ file |-> "ok", entries |-> << Entry(2, OneBab, 1, 1, Abab) >> \o BulkEntries ],
           [ file |-> "ok", entries |-> BulkEntries \o << Entry(2, OneBab, 1, 1, Abab) >> ],
           [ file |-> "ok", entries |-> BulkEntries \o << Entry(3, Aa, 1, 1, Abab) >> ],
           [ file |-> "missing", entries |-> << >> ] }

\* The entries of the datasets the loader is run on: null, or a verse 1
LoadEntries ==
    { NullEntry } \cup
    { Entry(ordinal, name, c, 1, Ba) :
        ordinal \in { GenesisOrdinal, JohnOrdinal },
        name \in { GenesisName, JohnName }, c \in { 1, 2 } }

\* Bound on the number of entries of these datasets
MaxLoadEntries == 3

LoadDatasets ==
    { [ file |-> "ok", entries |-> es ] :
        es \in UNION { [ 1 .. n -> LoadEntries ] : n \in 0 .. MaxLoadEntries } }
    \cup { [ file |-> f, entries |-> << >> ] : f \in { "missing", "malformed", "noverses" } }

\* The loader alone, on every dataset
LoadInit == NewStorage /\ bibleData \in LoadDatasets

LoadNext == ReadDataset \/ LoadEntry \/ LoadDone \/ initializeSampleData

LoadSpec == LoadInit /\ [][LoadNext]_vars

\* The loader, then requests to the resolver
SearchInit == NewStorage /\ bibleData \in SearchDatasets

SearchNext ==
    \/ ReadDataset
    \/ LoadEntry
    \/ LoadDone
    \/ initializeSampleData
    \/ searchVerses
    \/ getVersesByBook
    \/ Respond

SearchSpec == SearchInit /\ [][SearchNext]_vars

----------------------------------------------------------------------------
(* Claims about highlights and bookmarks, checked under Spec *)

StrictlyIncreasing(s) == \A i, j \in DOMAIN s : i < j => s[i] < s[j]

DistinctIds(list) ==
    \A i, j \in DOMAIN list : i # j => list[i].id # list[j].id

\* C4: every id createHighlight returns is greater than all it returned
\* before, also after deletes; the same for createBookmark with its own
\* counter; no two stored entities of one kind share an id.
C4_IdsNeverReused ==
    /\ StrictlyIncreasing(issuedHighlightIds)
    /\ StrictlyIncreasing(issuedBookmarkIds)
    /\ DistinctIds(highlightsList)
    /\ DistinctIds(bookmarksList)
    /\ \A i \in DOMAIN highlightsList :
          highlightsList[i].id \in Range(issuedHighlightIds)
    /\ \A i \in DOMAIN bookmarksList :
          bookmarksList[i].id \in Range(issuedBookmarkIds)
    /\ last.op \in { "createHighlight", "createBookmark" } =>
          /\ Len(result) = 1
          /\ result[1].id = IF last.op = "createHighlight"
                            THEN issuedHighlightIds[Len(issuedHighlightIds)]
                            ELSE issuedBookmarkIds[Len(issuedBookmarkIds)]

\* C4 witness: a highlight was created and deleted, and the next create
\* returned a new id; a bookmark was created as well.
C4_Witness ==
    /\ last.op = "createHighlight"
    /\ Len(issuedHighlightIds) = 2
    /\ Len(highlightsList) = 1
    /\ result[1].id = 2
    /\ Len(issuedBookmarkIds) = 1

\* The entities of list that a delete of (verseId, userId) can remove
Matches(list, verseId, userId) ==
    { i \in DOMAIN list :
        list[i].verseId = verseId /\ list[i].userId = DefaultParam(userId) }

IsCreate(l) == l.op \in { "createHighlight", "createBookmark" }

IsDelete(l) == l.op \in { "deleteHighlight", "deleteBookmark" }

ListOf(op) ==
    IF op \in { "createHighlight", "deleteHighlight", "getHighlights" }
    THEN highlightsList ELSE bookmarksList

GetOf(op, userId) ==
    IF op \in { "createHighlight", "deleteHighlight", "getHighlights" }
    THEN getHighlightsOf(userId) ELSE getBookmarksOf(userId)

IsHighlightOp(op) == op \in { "createHighlight", "deleteHighlight", "getHighlights" }

\* The collection of op's kind, and the default user's listing, after the step
ListAfter(op) == IF IsHighlightOp(op) THEN highlightsList' ELSE bookmarksList'

GetAfter(op, userId) ==
    IF IsHighlightOp(op) THEN getHighlightsOf(userId)' ELSE getBookmarksOf(userId)'

\* A create without a user id, just done, whose entity the get of the default
\* user lists with userId "default"
CreatedIsListed ==
    (IsCreate(last) /\ last.userId = Undefined) =>
        /\ result[1].userId = DefaultUser
        /\ result[1].verseId = last.verseId
        /\ result[1] \in Range(GetOf(last.op, Undefined))

\* This step is the delete, without a user id, of the verse id of the create
\* without a user id that was the step before
DeleteFollowsCreate ==
    /\ IsCreate(last) /\ last.userId = Undefined
    /\ IsDelete(last')
    /\ (last.op = "createHighlight") = (last'.op = "deleteHighlight")
    /\ last'.verseId = last.verseId
    /\ last'.userId = Undefined

\* C5 as stated: from any reachable state, create without a user id, then
\* delete of the same verse id: the created entity is listed after the create
\* and is not listed after the delete.
C5_RoundTripAnyState ==
    [][ /\ CreatedIsListed'
        /\ DeleteFollowsCreate =>
              result[1] \notin Range(GetAfter(last.op, Undefined)) ]_vars

\* C5 amended: the created entity is listed after the create; after the delete
\* it is no longer listed if no entity of the same verse id and the default
\* user was stored before the create, and is still listed otherwise (the
\* delete removed the earliest one).
C5_RoundTrip ==
    [][ /\ CreatedIsListed'
        /\ DeleteFollowsCreate =>
              LET created == result[1]
                  alone == \A i \in Matches(ListOf(last.op), last.verseId, Undefined) :
                               ListOf(last.op)[i] = created
              IN  (created \notin Range(GetAfter(last.op, Undefined))) <=> alone ]_vars

\* C5 witness: the delete without a user id removed the entity the latest
\* create returned.
C5_Witness ==
    /\ last.op = "deleteHighlight"
    /\ last.userId = Undefined
    /\ issuedHighlightIds # << >>
    /\ last.removed = issuedHighlightIds[Len(issuedHighlightIds)]

\* C6: a delete of a (verseId, userId) pair that no stored entity has leaves
\* both collections and both counters as they were.
C6_DeleteAbsentIsNoOp ==
    [][ (IsDelete(last') /\ Matches(ListOf(last'.op), last'.verseId, last'.userId) = {})
            => /\ highlightsList' = highlightsList
               /\ bookmarksList' = bookmarksList
               /\ currentHighlightId' = currentHighlightId
               /\ currentBookmarkId' = currentBookmarkId ]_vars

\* C6 witness: a delete found nothing to remove although its collection holds
\* entities (of other pairs).
C6_Witness ==
    /\ IsDelete(last)
    /\ last.removed = 0
    /\ ListOf(last.op) # << >>

\* The list without the entity of the lowest id among those of the pair
WithoutEarliest(list, verseId, userId) ==
    LET m == Matches(list, verseId, userId)
        first == CHOOSE i \in m : \A j \in m : list[i].id <= list[j].id
    IN  [ k \in 1 .. (Len(list) - 1) |-> IF k < first THEN list[k] ELSE list[k + 1] ]

\* C7: a delete of a pair that stored entities have removes the one created
\* first and nothing else: later duplicates, other users' entities and the
\* other collection stay, and so do the counters.
C7_DeleteRemovesFirstOnly ==
    [][ (IsDelete(last') /\ Matches(ListOf(last'.op), last'.verseId, last'.userId) # {})
            => /\ ListAfter(last'.op) =
                      WithoutEarliest(ListOf(last'.op), last'.verseId, last'.userId)
               /\ last'.op = "deleteHighlight" => bookmarksList' = bookmarksList
               /\ last'.op = "deleteBookmark" => highlightsList' = highlightsList
               /\ currentHighlightId' = currentHighlightId
               /\ currentBookmarkId' = currentBookmarkId ]_vars

\* C7 witness: a delete removed a highlight and a later duplicate of the same
\* verse id, user and color is still stored.
C7_Witness ==
    /\ last.op = "deleteHighlight"
    /\ last.removed # 0
    /\ \E i, j \in DOMAIN highlightsList :
          /\ i # j
          /\ highlightsList[i].verseId = last.verseId
          /\ highlightsList[i].userId = DefaultParam(last.userId)
          /\ highlightsList[i].id > last.removed
          /\ highlightsList[j].verseId = highlightsList[i].verseId
          /\ highlightsList[j].userId = highlightsList[i].userId
          /\ highlightsList[j].color = highlightsList[i].color

----------------------------------------------------------------------------
(* Claims about the query resolver, checked under SearchSpec *)

\* The ways of reading s as <optional numeral 1-3><words><chapter>:<verse>:
\* the words end at g, spaces may follow up to h, the colon is at c
RefShapes(s) ==
    { << g, h, c >> \in (1 .. Len(s)) \X (1 .. Len(s)) \X (1 .. Len(s)) :
        /\ g <= h /\ h + 1 < c /\ c < Len(s)
        /\ \/ \A i \in 1 .. g : IsLetter(s[i]) \/ IsSpace(s[i])
           \/ /\ IsNumeral13(s[1]) /\ g >= 2
              /\ \A i \in 2 .. g : IsLetter(s[i]) \/ IsSpace(s[i])
        /\ \A i \in (g + 1) .. h : IsSpace(s[i])
        /\ \A i \in (h + 1) .. (c - 1) : IsDigit(s[i])
        /\ s[c] = ":"
        /\ \A i \in (c + 1) .. Len(s) : IsDigit(s[i]) }

\* The verses of a reference: the lower-cased book contains the name, the
\* chapter and the verse are the numbers
Referred(name, chapter, verse) ==
    { i \in DOMAIN verses :
        /\ includes(toLowerCase(verses[i].book), name)
        /\ verses[i].chapter = chapter
        /\ verses[i].verse = verse }

Searched == last.op = "searchVerses"

Normalized == trim(toLowerCase(last.query))

\* The verses whose lower-cased book contains the normalized query
BookHits == { i \in DOMAIN verses : includes(toLowerCase(verses[i].book), Normalized) }

\* The verses whose lower-cased text contains the normalized query
TextHits == { i \in DOMAIN verses : includes(toLowerCase(verses[i].text), Normalized) }

\* The place in storage of a verse of the store
PlaceOf(v) == CHOOSE i \in DOMAIN verses : verses[i] = v

\* The result lists verses of the store, each once, in storage order
InStorageOrder ==
    /\ \A k \in DOMAIN result : result[k] \in Range(verses)
    /\ \A k, l \in DOMAIN result : k < l => PlaceOf(result[k]) < PlaceOf(result[l])

\* C1: a query of the reference shape returns nothing or one verse, of the
\* parsed chapter and verse and a book containing the name; nothing exactly
\* when the store has no such verse; the other branches are not used.
C1_ReferenceBranch ==
    Searched =>
        \A shape \in RefShapes(Normalized) :
            LET name == trim(SubSeq(Normalized, 1, shape[1]))
                chapter == parseInt(SubSeq(Normalized, shape[2] + 1, shape[3] - 1))
                verse == parseInt(SubSeq(Normalized, shape[3] + 1, Len(Normalized)))
                referred == Referred(name, chapter, verse)
            IN  /\ last.branch = "reference"
                /\ Len(result) <= 1
                /\ (result = << >>) <=> (referred = {})
                /\ result # << >> => \E i \in referred : result[1] = verses[i]

\* C1 witness: a reference that several verses of the store answer returned
\* one of them.
C1_Witness ==
    /\ Searched
    /\ Len(result) = 1
    /\ \E shape \in RefShapes(Normalized) :
          Cardinality(Referred(trim(SubSeq(Normalized, 1, shape[1])),
                               result[1].chapter, result[1].verse)) >= 2

\* A query that is no reference, is longer than two characters once
\* normalized, and is part of the book of some verse
BookQuery ==
    /\ Searched
    /\ RefShapes(Normalized) = {}
    /\ Len(Normalized) > 2
    /\ BookHits # {}

\* C2: a book-name query returns at most 10 verses, all of chapter 1 of the
\* book of the first verse in storage whose book contains the query, in
\* storage order; no verse is returned for its text alone.
C2_BookNameBranch ==
    BookQuery =>
        LET first == CHOOSE i \in BookHits : \A j \in BookHits : i <= j
        IN  /\ Len(result) <= 10
            /\ InStorageOrder
            /\ \A k \in DOMAIN result :
                  /\ result[k].chapter = 1
                  /\ result[k].book = verses[first].book
                  /\ PlaceOf(result[k]) \in BookHits

\* C2 witness: a book-name query returned 10 verses of a first chapter that
\* has more, stored in another order than that of the verse numbers, while a
\* verse of another book also has the query in its book.
C2_Witness ==
    /\ BookQuery
    /\ Len(result) = 10
    /\ result[1].verse > result[2].verse
    /\ Cardinality({ i \in DOMAIN verses :
                       verses[i].book = result[1].book /\ verses[i].chapter = 1 }) > 10
    /\ \E i \in BookHits : verses[i].book # result[1].book

\* C3: a query that is neither a reference nor a book-name query returns
\* every verse whose lower-cased text or book contains it, each once, in
\* storage order, however many.
C3_FullTextFallback ==
    (Searched /\ RefShapes(Normalized) = {} /\ ~BookQuery) =>
        /\ InStorageOrder
        /\ { PlaceOf(result[k]) : k \in DOMAIN result } = BookHits \cup TextHits

\* C3 witness: the fallback returned more than 10 verses, some for their
\* text alone and some for their book alone.
C3_Witness ==
    /\ Searched /\ RefShapes(Normalized) = {} /\ ~BookQuery
    /\ Len(result) > 10
    /\ TextHits \ BookHits # {}
    /\ BookHits \ TextHits # {}

\* C9 as stated: getVersesByBook returns the verses of exactly that book and,
\* when a chapter is given, of exactly that chapter, ascending by verse.
C9_VersesByBook ==
    last.op = "getVersesByBook" =>
        LET wanted == { i \in DOMAIN verses :
                          /\ verses[i].book = last.book
                          /\ last.chapter.kind # "undefined" =>
                                /\ last.chapter.kind = "number"
                                /\ verses[i].chapter = last.chapter.value }
        IN  /\ \A k \in DOMAIN result : result[k] \in Range(verses)
            /\ { PlaceOf(result[k]) : k \in DOMAIN result } = wanted
            /\ Len(result) = Cardinality(wanted)
            /\ \A k, l \in DOMAIN result : k < l => result[k].verse <= result[l].verse

----------------------------------------------------------------------------
(* Claims about the loader, checked under LoadSpec *)

Constructed == pc = "ready"

\* Reading, parsing or processing this dataset fails
DatasetFails ==
    \/ bibleData.file # "ok"
    \/ \E i \in DOMAIN bibleData.entries : bibleData.entries[i].isNull

HoldsSampleBook(b) ==
    \E i \in DOMAIN books :
        /\ books[i].name = b.name /\ books[i].testament = b.testament
        /\ books[i].chapters = b.chapters /\ books[i].order = b.order

HoldsSampleVerse(v) ==
    \E i \in DOMAIN verses :
        /\ verses[i].book = v.book /\ verses[i].chapter = v.chapter
        /\ verses[i].verse = v.verse /\ verses[i].text = v.text

\* C8: a failure of the loader is caught: the constructor goes on to the end,
\* and the store then holds the sample books and verses, a verse for each
\* sample book.
C8_LoaderFallback ==
    /\ ~Constructed => ENABLED LoadNext
    /\ (Constructed /\ DatasetFails) =>
          /\ loadFailed
          /\ \A k \in DOMAIN booksData :
                /\ HoldsSampleBook(booksData[k])
                /\ \E i \in DOMAIN verses : verses[i].book = booksData[k].name
          /\ \A k \in DOMAIN sampleVerses : HoldsSampleVerse(sampleVerses[k])

\* C8 witness: the store was constructed from a dataset whose second entry
\* is malformed.
C8_Witness ==
    /\ Constructed
    /\ bibleData.file = "ok"
    /\ Len(bibleData.entries) >= 2
    /\ ~bibleData.entries[1].isNull
    /\ bibleData.entries[2].isNull

DistinctOrders ==
    \A i, j \in DOMAIN books : i # j => books[i].order # books[j].order

OrdinalPerName ==
    \A i, j \in DOMAIN bibleData.entries :
        LET a == bibleData.entries[i]
            b == bibleData.entries[j]
        IN  (~a.isNull /\ ~b.isNull /\ a.book_name # b.book_name) => a.book # b.book

====
